---- MODULE Spec2Model ----
(***************************************************************************)
(* Model of src/main.py: reconciliation of a downloaded CSV table against  *)
(* a spreadsheet range (process_and_update and its helpers).               *)
(*                                                                         *)
(* A row is a sequence of strings.  A table is a sequence of rows whose    *)
(* first row is the header.  Positions in the sheet are 1-based, so        *)
(* sheet[p] is the row at position p.                                      *)
(***************************************************************************)
EXTENDS Integers, Sequences, FiniteSets, TLC

\* ------------------------------------------------------------- bounds
MaxRows == 2        \* data rows of a served CSV table
MaxStoreRows == 2   \* data rows of a sheet before the first cycle
MaxPairs == 2       \* configured endpoints / sheets / backup directories
MaxCycles == 2      \* invocations of the program on the same pair
MaxLen == 2         \* length of the rows given to merge_rows
MaxCols == 2        \* column_count given to merge_rows

VARIABLES
    url_count,        \* len(url_list)
    sheet_count,      \* len(sheet_list)
    backup_count,     \* len(backup_dir_list), 0 when LOCAL_BACKUP_DIR is unset
    i,                \* index of the pair being processed (1-based, 0: none yet)
    pc,               \* position in process_and_update
    served,           \* the table the pair's URL serves
    sheet,            \* the rows of the pair's target sheet
    csv_rows,         \* local: the parsed download
    existing_values,  \* local: the fetched sheet rows
    rows_to_update,   \* local: CHANGED rows, in incoming order
    rows_to_append,   \* local: rows to append, in incoming order
    batch_data,       \* body of the batchUpdate call issued in this cycle
    append_body,      \* body of the append call issued in this cycle
    calls,            \* network calls of this cycle, in order, with their outcome
    cycle,            \* invocation number
    prev_ok,          \* the previous invocation applied its whole plan
    m_existing,       \* merge_rows argument existing_row
    m_new,            \* merge_rows argument new_row
    m_n,              \* merge_rows argument column_count
    m_out,            \* merge_rows result
    m_pc              \* "args" before the call of merge_rows, "ret" after

vars == <<url_count, sheet_count, backup_count, i, pc, served, sheet, csv_rows,
          existing_values, rows_to_update, rows_to_append, batch_data,
          append_body, calls, cycle, prev_ok,
          m_existing, m_new, m_n, m_out, m_pc>>

cfgVars == <<url_count, sheet_count, backup_count>>
mergeVars == <<m_existing, m_new, m_n, m_out, m_pc>>
localVars == <<csv_rows, existing_values, rows_to_update, rows_to_append,
               batch_data, append_body>>

\* ------------------------------------------------------------ strings

\* datetime.now().strftime(...) of one cycle
update_timestamp == "ts"

\* f"journal updated at {timestamp}"
message == "journal updated at ts"

\* s.strip(): the strings of the model with whitespace removed at both ends
Strip(s) == CASE s = " "  -> ""
              [] s = " 1" -> "1"
              [] OTHER    -> s

\* h.lower()
Lower(s) == CASE s = "ID" -> "id"
              [] s = "Id" -> "id"
              [] OTHER    -> s

\* int(s) raises ValueError unless s, stripped, is a decimal literal
IsInt(s) == Strip(s) \in {"1", "2"}

\* int(s) where it does not raise
IntOf(s) == CASE Strip(s) = "1" -> 1
              [] Strip(s) = "2" -> 2
              [] OTHER          -> 0

\* ------------------------------------------------------- pure helpers

Blanks(k) == [j \in 1..k |-> ""]

\* row + [''] * (column_count - len(row)); a negative count adds nothing
normalize_row(row, column_count) ==
    IF column_count > Len(row) THEN row \o Blanks(column_count - Len(row))
                               ELSE row

\* mutant: the comparison without the padding
rows_are_different_raw(row1, row2, column_count) == row1 # row2

rows_are_different(row1, row2, column_count) ==
    normalize_row(row1, column_count) # normalize_row(row2, column_count)

\* the condition of line 85: norm_new[i] and norm_new[i].strip()
NonBlank(s) == s # "" /\ Strip(s) # ""

\* mutant: only the empty string counts as blank
merge_rows_nostrip(existing_row, new_row, column_count) ==
    LET norm_existing == normalize_row(existing_row, column_count)
        norm_new == normalize_row(new_row, column_count)
    IN  [j \in 1..column_count |->
            IF norm_new[j] # "" THEN norm_new[j] ELSE norm_existing[j]]

merge_rows(existing_row, new_row, column_count) ==
    LET norm_existing == normalize_row(existing_row, column_count)
        norm_new == normalize_row(new_row, column_count)
    IN  [j \in 1..column_count |->
            IF NonBlank(norm_new[j]) THEN norm_new[j] ELSE norm_existing[j]]

\* ------------------------------------------------ the reconciliation

\* [h.lower() for h in header].index('id'), 0 when absent; 1-based here
id_col_idx(header) ==
    IF \E j \in 1..Len(header) : Lower(header[j]) = "id"
    THEN CHOOSE j \in 1..Len(header) :
            /\ Lower(header[j]) = "id"
            /\ \A k \in 1..(j - 1) : Lower(header[k]) # "id"
    ELSE 1

\* len(row) > id_col_idx and int(row[id_col_idx]) does not raise
HasKey(row, id_col) == Len(row) >= id_col /\ IsInt(row[id_col])

KeyOf(row, id_col) == IntOf(row[id_col])

\* mutant: an indexed key keeps its first row
MapPutFirstWins(map, idx, row, id_col) ==
    IF HasKey(row, id_col) /\ KeyOf(row, id_col) \notin DOMAIN map
    THEN [key \in DOMAIN map \cup {KeyOf(row, id_col)} |->
             IF key = KeyOf(row, id_col) THEN [pos |-> idx + 2, row |-> row]
                                         ELSE map[key]]
    ELSE map

\* the body of the loop of lines 169-176; idx is enumerate's 0-based index
MapPut(map, idx, row, id_col) ==
    IF HasKey(row, id_col)
    THEN [key \in DOMAIN map \cup {KeyOf(row, id_col)} |->
             IF key = KeyOf(row, id_col) THEN [pos |-> idx + 2, row |-> row]
                                         ELSE map[key]]
    ELSE map

RECURSIVE BuildMap(_, _, _, _)
BuildMap(map, idx, existing_data_only, id_col) ==
    IF idx >= Len(existing_data_only) THEN map
    ELSE BuildMap(MapPut(map, idx, existing_data_only[idx + 1], id_col),
                  idx + 1, existing_data_only, id_col)

EmptyMap == [key \in {} |-> [pos |-> 0, row |-> <<>>]]

\* existing_rows_map of lines 166-176
existing_rows_map(existing, id_col) == BuildMap(EmptyMap, 0, Tail(existing), id_col)

\* mutant: a row whose key cannot be read is appended
ClassifyRowKeepBadKey(plan, src, row, map, id_col, column_count) ==
    IF ~HasKey(row, id_col)
    THEN [plan EXCEPT !.app = Append(@, [src |-> src, row |-> row])]
    ELSE IF KeyOf(row, id_col) \in DOMAIN map
    THEN LET hit == map[KeyOf(row, id_col)]
         IN  IF rows_are_different(hit.row, row, column_count)
             THEN [plan EXCEPT !.upd = Append(@, [src |-> src, pos |-> hit.pos,
                                                  new_row |-> row,
                                                  existing_row |-> hit.row])]
             ELSE plan
    ELSE [plan EXCEPT !.app = Append(@, [src |-> src, row |-> row])]

\* the body of the loop of lines 181-197; src is the row's index in csv_rows
ClassifyRow(plan, src, row, map, id_col, column_count) ==
    IF ~HasKey(row, id_col) THEN plan
    ELSE IF KeyOf(row, id_col) \in DOMAIN map
    THEN LET hit == map[KeyOf(row, id_col)]
         IN  IF rows_are_different(hit.row, row, column_count)
             THEN [plan EXCEPT !.upd = Append(@, [src |-> src, pos |-> hit.pos,
                                                  new_row |-> row,
                                                  existing_row |-> hit.row])]
             ELSE plan
    ELSE [plan EXCEPT !.app = Append(@, [src |-> src, row |-> row])]

RECURSIVE Classify(_, _, _, _, _, _)
Classify(plan, src, csv, map, id_col, column_count) ==
    IF src > Len(csv) THEN plan
    ELSE Classify(ClassifyRow(plan, src, csv[src], map, id_col, column_count),
                  src + 1, csv, map, id_col, column_count)

\* mutant: the bootstrap appends the data rows only
BootstrapAppendNoHeader(csv) == [k \in 1..(Len(csv) - 1) |-> [src |-> k + 1, row |-> csv[k + 1]]]

\* rows_to_append = csv_rows of line 157
BootstrapAppend(csv) == [k \in 1..Len(csv) |-> [src |-> k, row |-> csv[k]]]

\* step 5, lines 152-197: the rows to update and to append
Plan(csv, existing) ==
    IF existing = <<>>
    THEN [upd |-> <<>>, app |-> BootstrapAppend(csv)]
    ELSE LET header == csv[1]
             id_col == id_col_idx(header)
         IN  Classify([upd |-> <<>>, app |-> <<>>], 2, csv,
                      existing_rows_map(existing, id_col), id_col, Len(header))

\* mutant: the merged row is written without the timestamp column
BatchEntryNoTimestamp(u, column_count) ==
    [range |-> u.pos, src |-> u.src,
     values |-> merge_rows(u.existing_row, u.new_row, column_count)]

\* lines 205-217: one entry of batch_data, range "<sheet>!A<row_index>"
BatchEntry(u, column_count) ==
    [range |-> u.pos, src |-> u.src,
     values |-> merge_rows(u.existing_row, u.new_row, column_count)
                    \o <<update_timestamp>>]

BatchData(upd, column_count) == [k \in 1..Len(upd) |-> BatchEntry(upd[k], column_count)]

\* [message] + [""] * (column_count - 1)
separator_row(column_count) == <<message>> \o Blanks(column_count - 1)

\* mutant: the separator is appended whether or not a row is
AppendWantedAlways(app) == TRUE

\* the condition of line 229
AppendWanted(app) == app # <<>>

\* rows_to_append after line 237; src 0 marks the separator row
WithSeparator(app, column_count) ==
    Append(app, [src |-> 0, row |-> separator_row(column_count)])

\* what values.batchUpdate does to the sheet: each entry's values overwrite the
\* cells of its row from column A on
RECURSIVE ApplyBatch(_, _, _)
ApplyBatch(rows, batch, k) ==
    IF k > Len(batch) THEN rows
    ELSE LET p == batch[k].range
             v == batch[k].values
             old == rows[p]
             new == IF Len(old) > Len(v)
                    THEN v \o SubSeq(old, Len(v) + 1, Len(old)) ELSE v
         IN  ApplyBatch([rows EXCEPT ![p] = new], batch, k + 1)

\* what values.append does to the sheet: the rows are added after the last one
ApplyAppend(rows, body) == rows \o [k \in 1..Len(body) |-> body[k].row]

ColumnCount == IF csv_rows = <<>> THEN 0 ELSE Len(csv_rows[1])

Called(op, ok) == Append(calls, [op |-> op, ok |-> ok])

\* ------------------------------------------------------------ actions

\* lines 115-138: the download succeeds and the content is parsed
DownloadOk ==
    /\ pc = "download"
    /\ calls' = Called("download", TRUE)
    /\ csv_rows' = served
    /\ pc' = IF served = <<>> THEN "done" ELSE "fetch"
    /\ UNCHANGED <<cfgVars, i, served, sheet, existing_values, rows_to_update,
                   rows_to_append, batch_data, append_body, cycle, prev_ok,
                   mergeVars>>

\* lines 120-122
DownloadFail ==
    /\ pc = "download"
    /\ calls' = Called("download", FALSE)
    /\ pc' = "done"
    /\ UNCHANGED <<cfgVars, i, served, sheet, localVars, cycle, prev_ok, mergeVars>>

\* lines 141-197: the sheet is fetched and the rows are classified
FetchOk ==
    /\ pc = "fetch"
    /\ calls' = Called("get", TRUE)
    /\ existing_values' = sheet
    /\ LET plan == Plan(csv_rows, sheet)
       IN  /\ rows_to_update' = plan.upd
           /\ rows_to_append' = plan.app
    /\ pc' = "update"
    /\ UNCHANGED <<cfgVars, i, served, sheet, csv_rows, batch_data, append_body,
                   cycle, prev_ok, mergeVars>>

\* lines 147-149
FetchFail ==
    /\ pc = "fetch"
    /\ calls' = Called("get", FALSE)
    /\ pc' = "done"
    /\ UNCHANGED <<cfgVars, i, served, sheet, localVars, cycle, prev_ok, mergeVars>>

\* line 200: nothing to update
UpdateSkip ==
    /\ pc = "update"
    /\ rows_to_update = <<>>
    /\ pc' = "append"
    /\ UNCHANGED <<cfgVars, i, served, sheet, localVars, calls, cycle, prev_ok,
                   mergeVars>>

\* lines 200-224
UpdateOk ==
    /\ pc = "update"
    /\ rows_to_update # <<>>
    /\ batch_data' = BatchData(rows_to_update, ColumnCount)
    /\ calls' = Called("batchUpdate", TRUE)
    /\ sheet' = ApplyBatch(sheet, batch_data', 1)
    /\ pc' = "append"
    /\ UNCHANGED <<cfgVars, i, served, csv_rows, existing_values, rows_to_update,
                   rows_to_append, append_body, cycle, prev_ok, mergeVars>>

\* lines 200-217, 225-226: the error is printed and step 7 follows
UpdateFail ==
    /\ pc = "update"
    /\ rows_to_update # <<>>
    /\ batch_data' = BatchData(rows_to_update, ColumnCount)
    /\ calls' = Called("batchUpdate", FALSE)
    /\ pc' = "append"
    /\ UNCHANGED <<cfgVars, i, served, sheet, csv_rows, existing_values,
                   rows_to_update, rows_to_append, append_body, cycle, prev_ok,
                   mergeVars>>

\* lines 229, 250-252: nothing to append
AppendSkip ==
    /\ pc = "append"
    /\ ~AppendWanted(rows_to_append)
    /\ pc' = "done"
    /\ UNCHANGED <<cfgVars, i, served, sheet, localVars, calls, cycle, prev_ok,
                   mergeVars>>

\* lines 229-247
AppendOk ==
    /\ pc = "append"
    /\ AppendWanted(rows_to_append)
    /\ rows_to_append' = WithSeparator(rows_to_append, ColumnCount)
    /\ append_body' = rows_to_append'
    /\ calls' = Called("append", TRUE)
    /\ sheet' = ApplyAppend(sheet, append_body')
    /\ pc' = "done"
    /\ UNCHANGED <<cfgVars, i, served, csv_rows, existing_values, rows_to_update,
                   batch_data, cycle, prev_ok, mergeVars>>

\* lines 229-237, 248-249
AppendFail ==
    /\ pc = "append"
    /\ AppendWanted(rows_to_append)
    /\ rows_to_append' = WithSeparator(rows_to_append, ColumnCount)
    /\ append_body' = rows_to_append'
    /\ calls' = Called("append", FALSE)
    /\ pc' = "done"
    /\ UNCHANGED <<cfgVars, i, served, sheet, csv_rows, existing_values,
                   rows_to_update, batch_data, cycle, prev_ok, mergeVars>>

\* one pass of the loop body of lines 108-252
Next ==
    \/ DownloadOk
    \/ DownloadFail
    \/ FetchOk
    \/ FetchFail
    \/ UpdateSkip
    \/ UpdateOk
    \/ UpdateFail
    \/ AppendSkip
    \/ AppendOk
    \/ AppendFail

\* --------------------------------------------------------- the inputs

Headers == {<<"id", "name">>, <<"name", "ID">>, <<>>}

IncomingRows == {<<"1", "x">>, <<"1", "">>, <<"2", "1">>, <<"x", "1">>, <<" 1">>}

StoreHeader == <<"id", "name">>

StoreRows == {<<"1", "x">>, <<"1">>, <<"2", "1">>}

SeqsUpTo(S, k) == UNION {[1..n -> S] : n \in 0..k}

\* what csv.reader yields: nothing, or a header and data rows of any width
Tables == {<<>>} \cup {<<h>> \o rows : h \in Headers, rows \in SeqsUpTo(IncomingRows, MaxRows)}

\* what values.get yields: nothing, or a header row and data rows
Stores == {<<>>} \cup {<<StoreHeader>> \o rows : rows \in SeqsUpTo(StoreRows, MaxStoreRows)}

NoLocals ==
    /\ csv_rows = <<>> /\ existing_values = <<>>
    /\ rows_to_update = <<>> /\ rows_to_append = <<>>
    /\ batch_data = <<>> /\ append_body = <<>>
    /\ calls = <<>>

NoMerge ==
    /\ m_existing = <<>> /\ m_new = <<>> /\ m_n = 0 /\ m_out = <<>> /\ m_pc = "ret"

\* one configured pair, validated, about to be processed
Init ==
    /\ url_count = 1 /\ sheet_count = 1 /\ backup_count = 0
    /\ i = 1 /\ pc = "download"
    /\ served \in Tables
    /\ sheet \in Stores
    /\ NoLocals
    /\ cycle = 1 /\ prev_ok = FALSE
    /\ NoMerge

Spec == Init /\ [][Next]_vars

\* ------------------------------------- the same pair, invoked again

\* every call of the cycle succeeded, so its whole plan is in the sheet
AllApplied == \A k \in 1..Len(calls) : calls[k].ok

\* main() runs again on the same source and the same sheet
Rerun ==
    /\ pc = "done"
    /\ cycle < MaxCycles
    /\ cycle' = cycle + 1
    /\ prev_ok' = AllApplied
    /\ pc' = "download"
    /\ csv_rows' = <<>> /\ existing_values' = <<>>
    /\ rows_to_update' = <<>> /\ rows_to_append' = <<>>
    /\ batch_data' = <<>> /\ append_body' = <<>>
    /\ calls' = <<>>
    /\ UNCHANGED <<cfgVars, i, served, sheet, mergeVars>>

NextTwice == Next \/ Rerun

SpecTwice == Init /\ [][NextTwice]_vars

\* ------------------------------------------ the configured pair lists

\* mutant: mismatched lists are processed as far as they go
ConfigValidTruncating(urls, sheets, backups) == TRUE

\* lines 98-106: neither ValueError is raised
ConfigValid(urls, sheets, backups) ==
    /\ urls = sheets
    /\ ~(backups # 0 /\ backups # urls)

RunHeader == <<"id", "name">>

RunTables == {<<>>,
              <<RunHeader, <<"1", "x">>>>,
              <<RunHeader, <<"1", "x">>, <<"2", "1">>>>}

RunStores == {<<>>, <<StoreHeader, <<"1">>>>}

\* split(';') yields at least one element; an unset LOCAL_BACKUP_DIR yields none
InitRun ==
    /\ url_count \in 1..MaxPairs
    /\ sheet_count \in 1..MaxPairs
    /\ backup_count \in 0..MaxPairs
    /\ i = 0 /\ pc = "start"
    /\ served = <<>> /\ sheet = <<>>
    /\ NoLocals
    /\ cycle = 1 /\ prev_ok = FALSE
    /\ NoMerge

\* lines 98-108: the lists match, the loop starts with the first pair
Start ==
    /\ pc = "start"
    /\ ConfigValid(url_count, sheet_count, backup_count)
    /\ i' = 1
    /\ pc' = "download"
    /\ served' \in RunTables
    /\ sheet' \in RunStores
    /\ UNCHANGED <<cfgVars, localVars, calls, cycle, prev_ok, mergeVars>>

\* lines 98-106: ValueError leaves process_and_update
ConfigError ==
    /\ pc = "start"
    /\ ~ConfigValid(url_count, sheet_count, backup_count)
    /\ pc' = "config_error"
    /\ UNCHANGED <<cfgVars, i, served, sheet, localVars, calls, cycle, prev_ok,
                   mergeVars>>

\* line 108: the next iteration of the loop
NextPair ==
    /\ pc = "done"
    /\ i < url_count
    /\ i' = i + 1
    /\ pc' = "download"
    /\ served' \in RunTables
    /\ sheet' \in RunStores
    /\ csv_rows' = <<>> /\ existing_values' = <<>>
    /\ rows_to_update' = <<>> /\ rows_to_append' = <<>>
    /\ batch_data' = <<>> /\ append_body' = <<>>
    /\ calls' = <<>>
    /\ UNCHANGED <<cfgVars, cycle, prev_ok, mergeVars>>

NextRun == Start \/ ConfigError \/ NextPair \/ Next

SpecRun == InitRun /\ [][NextRun]_vars

\* ---------------------------------------------- merge_rows on its own

Field == {"", " ", "1", "x"}

RowsUpTo(k) == UNION {[1..n -> Field] : n \in 0..k}

InitMerge ==
    /\ url_count = 1 /\ sheet_count = 1 /\ backup_count = 0
    /\ i = 1 /\ pc = "done"
    /\ served = <<>> /\ sheet = <<>>
    /\ csv_rows = <<>> /\ existing_values = <<>>
    /\ rows_to_update = <<>> /\ rows_to_append = <<>>
    /\ batch_data = <<>> /\ append_body = <<>>
    /\ calls = <<>> /\ cycle = 1 /\ prev_ok = FALSE
    /\ m_existing \in RowsUpTo(MaxLen)
    /\ m_new \in RowsUpTo(MaxLen)
    /\ m_n \in 0..MaxCols
    /\ m_out = <<>>
    /\ m_pc = "args"

CallMerge ==
    /\ m_pc = "args"
    /\ m_out' = merge_rows(m_existing, m_new, m_n)
    /\ m_pc' = "ret"
    /\ UNCHANGED <<cfgVars, i, pc, served, sheet, localVars, calls, cycle,
                   prev_ok, m_existing, m_new, m_n>>

NextMerge == CallMerge

SpecMerge == InitMerge /\ [][NextMerge]_vars

\* field j of a row padded with empty fields
PaddedAt(row, j) == IF j <= Len(row) THEN row[j] ELSE ""

\* empty or whitespace only
IsBlankField(s) == s \in {"", " "}

\* C2: merge_rows(E, N, n) has n fields, and field j is N's field (N padded
\* to n) when that field is neither empty nor whitespace only, and E's field
\* (E padded to n) otherwise.
MergePreservation ==
    m_pc = "ret" =>
        /\ Len(m_out) = m_n
        /\ \A j \in 1..m_n :
              m_out[j] = IF IsBlankField(PaddedAt(m_new, j))
                         THEN PaddedAt(m_existing, j)
                         ELSE PaddedAt(m_new, j)

\* a whitespace-only incoming field met a stored value, and the stored value stayed
MergePreservationWitness ==
    /\ m_pc = "ret"
    /\ m_n = 2
    /\ m_existing = <<"1", "x">>
    /\ m_new = <<" ">>
    /\ m_out = <<"1", "x">>

\* ------------------------------------------- properties of the cycle

\* the sheet was fetched and the rows were classified in this cycle
Planned ==
    \/ pc \in {"update", "append"}
    \/ pc = "done" /\ Len(calls) >= 2 /\ calls[2].op = "get" /\ calls[2].ok

Bootstrap == Planned /\ existing_values = <<>>

Reconcile == Planned /\ existing_values # <<>>

IdCol == id_col_idx(csv_rows[1])

AppendRows == [k \in 1..Len(append_body) |-> append_body[k].row]

IssuedCall(op) == \E k \in 1..Len(calls) : calls[k].op = op

\* a row whose first field is the message and whose other fields are empty
IsAuditRow(row) ==
    /\ Len(row) >= 1
    /\ row[1] = message
    /\ \A j \in 2..Len(row) : row[j] = ""

UpdateSrcs == {rows_to_update[k].src : k \in 1..Len(rows_to_update)}
                \cup {batch_data[k].src : k \in 1..Len(batch_data)}

AppendSrcs == {rows_to_append[k].src : k \in 1..Len(rows_to_append)}
                \cup {append_body[k].src : k \in 1..Len(append_body)}

\* the incoming data rows, by their index in csv_rows
DataSrcs == 2..Len(csv_rows)

\* too short for the key column, or a key field that int() rejects
Malformed(src) ==
    \/ Len(csv_rows[src]) < IdCol
    \/ ~IsInt(csv_rows[src][IdCol])

\* the positions of the fetched data rows that carry the key of row src
Matches(src) ==
    {p \in 2..Len(existing_values) :
        /\ Len(existing_values[p]) >= IdCol
        /\ IsInt(existing_values[p][IdCol])
        /\ IntOf(existing_values[p][IdCol]) = IntOf(csv_rows[src][IdCol])}

LastMatch(src) == CHOOSE p \in Matches(src) : \A q \in Matches(src) : q <= p

Longer(a, b) == IF a >= b THEN a ELSE b

\* the rows differ as sequences once each is padded to n fields
PaddedDiffer(a, b, n) ==
    \/ Longer(Len(a), n) # Longer(Len(b), n)
    \/ \E j \in 1..Longer(Len(a), n) : PaddedAt(a, j) # PaddedAt(b, j)

IsNew(src) == ~Malformed(src) /\ Matches(src) = {}

IsChanged(src) ==
    /\ ~Malformed(src)
    /\ Matches(src) # {}
    /\ PaddedDiffer(existing_values[LastMatch(src)], csv_rows[src], ColumnCount)

IsUnchanged(src) ==
    /\ ~Malformed(src)
    /\ Matches(src) # {}
    /\ ~PaddedDiffer(existing_values[LastMatch(src)], csv_rows[src], ColumnCount)

Times(seq, src) == Cardinality({k \in 1..Len(seq) : seq[k].src = src})

\* C1 (as claimed): once a cycle has applied its whole plan to the sheet, the
\* next cycle on the same source table plans no update and no append.
Idempotence ==
    (cycle >= 2 /\ prev_ok /\ pc = "update") =>
        (rows_to_update = <<>> /\ rows_to_append = <<>>)

\* C3 (as claimed): with an empty sheet the append batch is exactly the
\* incoming table, header first, and there is no update set.
BootstrapExactTable ==
    (Bootstrap /\ pc = "done") =>
        (AppendRows = csv_rows /\ batch_data = <<>>)

\* C3 (amended): with an empty sheet the append batch is the incoming table,
\* header first and data rows in order, followed by one audit row, and no
\* update set is produced nor sent.
BootstrapTableThenAudit ==
    Bootstrap =>
        /\ rows_to_update = <<>>
        /\ batch_data = <<>>
        /\ ~IssuedCall("batchUpdate")
        /\ pc \in {"update", "append"} =>
              [k \in 1..Len(rows_to_append) |-> rows_to_append[k].row] = csv_rows
        /\ pc = "done" =>
              /\ IssuedCall("append")
              /\ Len(AppendRows) = Len(csv_rows) + 1
              /\ SubSeq(AppendRows, 1, Len(csv_rows)) = csv_rows
              /\ IsAuditRow(AppendRows[Len(AppendRows)])

\* a header and two data rows met an empty sheet: four rows were appended
BootstrapWitness ==
    /\ Bootstrap
    /\ pc = "done"
    /\ Len(csv_rows) = 3
    /\ Len(append_body) = 4

\* C4 (as claimed): in every cycle a malformed incoming data row is in
\* neither the update set nor the append batch.
MalformedNeverPlanned ==
    Planned =>
        \A src \in DataSrcs : Malformed(src) => src \notin UpdateSrcs \cup AppendSrcs

\* C4 (amended): in every cycle that finds a non-empty sheet a malformed
\* incoming data row is in neither the update set nor the append batch.
MalformedNeverReconciled ==
    Reconcile =>
        \A src \in DataSrcs : Malformed(src) => src \notin UpdateSrcs \cup AppendSrcs

\* a malformed row was dropped from a cycle that appended another row
MalformedWitness ==
    /\ Reconcile
    /\ pc = "done"
    /\ \E src \in DataSrcs : Malformed(src)
    /\ Len(append_body) = 2

OneAuditRowLast ==
    /\ append_body # <<>>
    /\ append_body[Len(append_body)].src = 0
    /\ IsAuditRow(append_body[Len(append_body)].row)
    /\ Times(append_body, 0) = 1

\* C6 (as claimed): the append batch holds one audit row, last, exactly when
\* a NEW row is appended; a cycle without NEW rows issues no append.
AuditIffNewRow ==
    (Planned /\ pc = "done") =>
        /\ OneAuditRowLast <=> (\E src \in DataSrcs : IsNew(src) /\ src \in AppendSrcs)
        /\ (\A src \in DataSrcs : ~IsNew(src)) =>
              (append_body = <<>> /\ ~IssuedCall("append"))

\* C6 (amended): the append batch holds one audit row, last, exactly when a
\* row of the incoming table is appended: a NEW row when the sheet is not
\* empty, the whole table when it is.  A cycle on a non-empty sheet without
\* NEW rows issues no append and no audit row.
AuditIffRowAppended ==
    (Planned /\ pc = "done") =>
        /\ OneAuditRowLast <=> (\E k \in 1..Len(append_body) : append_body[k].src # 0)
        /\ append_body = <<>> \/ OneAuditRowLast
        /\ IssuedCall("append") <=> append_body # <<>>
        /\ Reconcile =>
              /\ \A src \in AppendSrcs \ {0} : IsNew(src)
              /\ (\E src \in DataSrcs : IsNew(src)) <=> append_body # <<>>
        /\ Bootstrap => append_body # <<>>

\* a CHANGED row was written and one NEW row was appended with its audit row
AuditWitness ==
    /\ Reconcile
    /\ pc = "done"
    /\ batch_data # <<>>
    /\ Len(append_body) = 2
    /\ append_body[1].src # 0

\* C7 (as claimed): every emitted row is as long as the incoming header.
EmittedWidthIsHeaderWidth ==
    Planned =>
        /\ \A k \in 1..Len(batch_data) : Len(batch_data[k].values) = ColumnCount
        /\ \A k \in 1..Len(append_body) : Len(append_body[k].row) = ColumnCount

\* C7 (amended): a merged row of the update set has len(header) fields and
\* the update timestamp after them; the audit row has len(header) fields, and
\* one field when the header has none; an appended row is the incoming row,
\* neither padded nor cut.
EmittedWidths ==
    Planned =>
        /\ \A k \in 1..Len(batch_data) :
              /\ Len(batch_data[k].values) = ColumnCount + 1
              /\ batch_data[k].values[ColumnCount + 1] = update_timestamp
        /\ \A k \in 1..Len(append_body) :
              IF append_body[k].src = 0
              THEN Len(append_body[k].row) = Longer(ColumnCount, 1)
              ELSE append_body[k].row = csv_rows[append_body[k].src]

\* a merged row was written and a NEW row wider than the header was appended
EmittedWidthsWitness ==
    /\ Reconcile
    /\ pc = "done"
    /\ batch_data # <<>>
    /\ \E k \in 1..Len(append_body) :
          /\ append_body[k].src # 0
          /\ Len(append_body[k].row) > ColumnCount

\* C8: on a non-empty sheet every incoming data row is malformed, NEW, CHANGED
\* or UNCHANGED; a CHANGED row is once in the update set and not in the append
\* batch, a NEW row once in the append batch and not in the update set, a
\* malformed or UNCHANGED row in neither.
KeyPartition ==
    Reconcile =>
        /\ \A src \in DataSrcs :
              /\ Cardinality({c \in {"bad", "new", "changed", "unchanged"} :
                     \/ c = "bad" /\ Malformed(src)
                     \/ c = "new" /\ IsNew(src)
                     \/ c = "changed" /\ IsChanged(src)
                     \/ c = "unchanged" /\ IsUnchanged(src)}) = 1
              /\ Times(rows_to_update, src) = (IF IsChanged(src) THEN 1 ELSE 0)
              /\ Times(rows_to_append, src) = (IF IsNew(src) THEN 1 ELSE 0)
        /\ UpdateSrcs \subseteq {src \in DataSrcs : IsChanged(src)}
        /\ AppendSrcs \ {0} \subseteq {src \in DataSrcs : IsNew(src)}

\* a row equal to its stored row up to padding was left out, beside a NEW row
KeyPartitionWitness ==
    /\ Reconcile
    /\ pc = "update"
    /\ \E src \in DataSrcs :
          /\ IsUnchanged(src)
          /\ csv_rows[src] # existing_values[LastMatch(src)]
    /\ \E src \in DataSrcs : IsNew(src)

FailureIsolation ==
    \A k \in 1..(Len(calls) - 1) : calls[k].ok

ConfigMismatch ==
    \/ url_count # sheet_count
    \/ backup_count # 0 /\ backup_count # url_count

\* C9: with mismatched list lengths no pair is processed and no call is made;
\* the only step taken is the configuration error.
ConfigFailFast ==
    ConfigMismatch =>
        /\ i = 0
        /\ calls = <<>>
        /\ pc \in {"start", "config_error"}
        /\ sheet = <<>>

\* the backup list alone is of another length, and the error was raised
ConfigFailFastWitness ==
    /\ pc = "config_error"
    /\ url_count = sheet_count
    /\ backup_count # 0
    /\ backup_count # url_count
    /\ calls = <<>>

====
